---- MODULE Spec2Model ----
(***************************************************************************)
(* A model of ascii-video-play.c: the pipeline driver in main(), the       *)
(* geometry computation of init_filters() and the resources main() owns.   *)
(* The libav* calls are the environment: every call returns one of the     *)
(* results its contract allows, chosen nondeterministically.               *)
(***************************************************************************)
EXTENDS Integers, Sequences, FiniteSets, TLC

(* ------------------------------------------------------------------ *)
(* Bounds of the model                                                 *)
(* ------------------------------------------------------------------ *)

\* units (packets) the source yields before it can only end or fail
MaxUnits == 2

\* frames the decoder can yield for one submitted unit
MaxFrames == 2

\* the geometry is resolved for every width and height in 1..MaxDim (and for
\* the sample dimensions of GeomWidths and GeomHeights)
MaxDim == 3

\* ... and for every sample aspect ratio with both parts in -1..MaxSar
MaxSar == 2

\* display_frame is checked for frames of 1..MaxFrameWidth columns,
\* 1..MaxFrameHeight rows and 0..MaxPadding bytes between the rows
MaxFrameWidth == 3
MaxFrameHeight == 2
MaxPadding == 1

(* ------------------------------------------------------------------ *)
(* Return codes of the library calls                                   *)
(* ------------------------------------------------------------------ *)

\* AVERROR(EAGAIN): needs more input
AVERROR_EAGAIN == -11

\* AVERROR_EOF: end of stream
AVERROR_EOF == -541478725

\* AVERROR(ENOMEM)
AVERROR_ENOMEM == -12

\* any other failure of a library call (AVERROR_INVALIDDATA)
AVERROR_INVALIDDATA == -1094995529

\* what a failing library call can return
ErrorCodes == {AVERROR_EAGAIN, AVERROR_EOF, AVERROR_ENOMEM, AVERROR_INVALIDDATA}

\* the errors the driver tests for by name, and the ones it treats as hard
SoftCodes == {AVERROR_EAGAIN, AVERROR_EOF}
HardCodes == ErrorCodes \ SoftCodes

(* ------------------------------------------------------------------ *)
(* State                                                               *)
(* ------------------------------------------------------------------ *)

\* what main() allocates and frees at `end:`
Resources == {"filter_graph", "dec_ctx", "fmt_ctx", "frame", "filt_frame", "packet"}

\* the three buffers whose contents are unreferenced inside the loops
Slots == {"frame", "filt_frame", "packet"}

VARIABLES
    pc,               \* position of main()
    ret,              \* int ret
    frame_displayed,  \* int frame_displayed (line 279); indeterminate before
    res,              \* each resource: "null", "live" or "freed"
    freeCalls,        \* how often each resource's free function was called
    held,             \* whether each buffer currently holds referenced data
    dec_ctx,          \* width, height and sample aspect ratio of the decoder
    video_width,      \* double video_width of init_filters (line 165)
    video_display_aspect_ratio,  \* double, line 174
    adjusted_aspect_ratio,       \* double, line 180
    filters_descr,    \* the scale=W:H description, <<0, 0>> before it is built
    lastCall,         \* the last library call main() made
    unitsRead,        \* units av_read_frame has returned so far
    framesOut,        \* frames received for the unit last sent
    rendered,         \* calls of display_frame so far
    exitCode,         \* argument of exit(), -1 while running
    report,           \* final message of main(): "none", "usage", "alloc",
                      \* "error", "no_frame"
    avlog,            \* the call whose failure av_log(AV_LOG_ERROR) reported
                      \* last, "none" before the first such message
    video_stream_index,  \* the global of line 53
    stream_index,     \* packet->stream_index of the unit read last
    disp_frame,       \* the frame display_frame is called with: width,
                      \* height, linesize[0] and the bytes of data[0]
    stdout            \* what display_frame wrote, in order

\* the locals of init_filters that hold the geometry, and its result
geomVars == <<video_width, video_display_aspect_ratio, adjusted_aspect_ratio,
              filters_descr>>

vars == <<pc, ret, frame_displayed, res, freeCalls, held, dec_ctx,
          geomVars, lastCall, unitsRead, framesOut, rendered,
          exitCode, report, avlog, video_stream_index, stream_index,
          disp_frame, stdout>>

(* ------------------------------------------------------------------ *)
(* IEEE-754 binary64 arithmetic on positive values                     *)
(*                                                                     *)
(* init_filters() computes the grid in C doubles.  A double is modelled *)
(* as [m, e] with value m * 2^e and 2^52 <= m < 2^53; m is a natural    *)
(* number of up to 108 bits held in four limbs of 27 bits, least        *)
(* significant first.  Results are rounded to nearest, ties to even.    *)
(* Only positive, normal values occur for positive dimensions.          *)
(* ------------------------------------------------------------------ *)

Limb == 2^27

WZero == <<0, 0, 0, 0>>
WOne == <<1, 0, 0, 0>>

\* the wide number of an int 0 <= n < 2^31
WFromInt(n) == <<n % Limb, n \div Limb, 0, 0>>

\* the int of a wide number below 2^31
WToInt(x) == x[1] + x[2] * Limb

\* 2^k as a wide number
WPow2(k) == [i \in 1..4 |-> IF i = (k \div 27) + 1 THEN 2^(k % 27) ELSE 0]

WAdd(x, y) ==
    LET s1 == x[1] + y[1]
        s2 == x[2] + y[2] + (s1 \div Limb)
        s3 == x[3] + y[3] + (s2 \div Limb)
        s4 == x[4] + y[4] + (s3 \div Limb)
    IN  <<s1 % Limb, s2 % Limb, s3 % Limb, s4 % Limb>>

\* x - y for x >= y
WSub(x, y) ==
    LET d1 == x[1] - y[1]
        b1 == IF d1 < 0 THEN 1 ELSE 0
        d2 == x[2] - y[2] - b1
        b2 == IF d2 < 0 THEN 1 ELSE 0
        d3 == x[3] - y[3] - b2
        b3 == IF d3 < 0 THEN 1 ELSE 0
        d4 == x[4] - y[4] - b3
    IN  <<d1 + b1 * Limb, d2 + b2 * Limb, d3 + b3 * Limb, d4>>

WGeq(x, y) ==
    IF x[4] # y[4] THEN x[4] > y[4]
    ELSE IF x[3] # y[3] THEN x[3] > y[3]
    ELSE IF x[2] # y[2] THEN x[2] > y[2]
    ELSE x[1] >= y[1]

WDbl(x) == WAdd(x, x)

WHalf(x) ==
    <<(x[1] \div 2) + (x[2] % 2) * (Limb \div 2),
      (x[2] \div 2) + (x[3] % 2) * (Limb \div 2),
      (x[3] \div 2) + (x[4] % 2) * (Limb \div 2),
      x[4] \div 2>>

WOdd(x) == x[1] % 2 = 1

\* bit i (0 = least significant) of x
WBit(x, i) == (x[(i \div 27) + 1] \div 2^(i % 27)) % 2

\* limb i of x, 0 outside 1..4
WLimb(x, i) == IF i >= 1 /\ i <= 4 THEN x[i] ELSE 0

\* the number of bits of a limb v: the least b with v < 2^b
LimbBits(v) == CHOOSE b \in 0..27 : v < 2^b /\ (b = 0 \/ v >= 2^(b - 1))

\* the number of bits of x
WBits(x) ==
    IF x[4] # 0 THEN 81 + LimbBits(x[4])
    ELSE IF x[3] # 0 THEN 54 + LimbBits(x[3])
    ELSE IF x[2] # 0 THEN 27 + LimbBits(x[2])
    ELSE LimbBits(x[1])

\* x shifted right by n >= 0 bits
WShr(x, n) ==
    LET a == n \div 27
        b == n % 27
    IN  [i \in 1..4 |->
            (WLimb(x, i + a) \div 2^b) + (WLimb(x, i + a + 1) % 2^b) * 2^(27 - b)]

\* x shifted left by n >= 0 bits (the result fits in four limbs)
WShl(x, n) ==
    LET a == n \div 27
        b == n % 27
    IN  [i \in 1..4 |->
            (WLimb(x, i - a) % 2^(27 - b)) * 2^b + (WLimb(x, i - a - 1) \div 2^(27 - b))]

\* whether one of the n lowest bits of x is set
WLowBitsSet(x, n) ==
    LET a == n \div 27
        b == n % 27
    IN  (\E i \in 1..4 : i <= a /\ x[i] # 0) \/ WLimb(x, a + 1) % 2^b # 0

\* the double nearest to p * 2^e for p > 0 (ties to even); sticky tells that
\* nonzero bits below p were already dropped.  p is first brought to 54 bits,
\* its lowest bit being the guard bit.
FNorm(p, e, sticky) ==
    LET n == WBits(p) - 54
        p54 == IF n >= 0 THEN WShr(p, n) ELSE WShl(p, -n)
        st == sticky \/ (n > 0 /\ WLowBitsSet(p, n))
        m == WHalf(p54)
        up == WOdd(p54) /\ (st \/ WOdd(m))
        m1 == IF up THEN WAdd(m, WOne) ELSE m
    IN  IF WGeq(m1, WPow2(53))
        THEN [m |-> WHalf(m1), e |-> e + n + 2]
        ELSE [m |-> m1, e |-> e + n + 1]

\* (double)n for an int n > 0
FFromInt(n) == FNorm(WFromInt(n), 0, FALSE)

\* one step of the shift-and-add product: st = <<acc, i>>, bit i of b is
\* added into acc; no step is left when i < 0
WMulStep(a, b, st) ==
    IF st[2] < 0 THEN st
    ELSE LET acc2 == WDbl(st[1])
         IN  <<IF WBit(b, st[2]) = 1 THEN WAdd(acc2, a) ELSE acc2, st[2] - 1>>

RECURSIVE WMulLoop(_, _, _)
\* the steps left of the product, six at a time
WMulLoop(a, b, st) ==
    IF st[2] < 0 THEN st[1]
    ELSE WMulLoop(a, b,
            WMulStep(a, b, WMulStep(a, b, WMulStep(a, b,
            WMulStep(a, b, WMulStep(a, b, WMulStep(a, b, st)))))))

\* the product of two 53-bit numbers
WMul(a, b) == WMulLoop(a, b, <<WZero, 52>>)

\* a * b in double arithmetic
FMul(a, b) == FNorm(WMul(a.m, b.m), a.e + b.e, FALSE)

\* one step of the long division by d: st = <<q, r, i>>, the next quotient
\* bit of r / d is appended to q and the remainder doubled; no step is left
\* when i = 0
WDivStep(d, st) ==
    IF st[3] = 0 THEN st
    ELSE LET bit == WGeq(st[2], d)
             r1 == IF bit THEN WSub(st[2], d) ELSE st[2]
         IN  <<WAdd(WDbl(st[1]), IF bit THEN WOne ELSE WZero), WDbl(r1), st[3] - 1>>

RECURSIVE WDivLoop(_, _)
\* the steps left of the division, five at a time
WDivLoop(d, st) ==
    IF st[3] = 0 THEN st
    ELSE WDivLoop(d,
            WDivStep(d, WDivStep(d, WDivStep(d, WDivStep(d, WDivStep(d, st))))))

\* <<floor(a * 2^54 / b), whether the division left a remainder>> for
\* 53-bit numbers a, b
WDiv54(a, b) ==
    LET qr == WDivLoop(b, <<WZero, a, 55>>)
    IN  <<qr[1], qr[2] # WZero>>

\* a / b in double arithmetic
FDiv(a, b) ==
    LET qs == WDiv54(a.m, b.m)
    IN  FNorm(qs[1], a.e - b.e - 54, qs[2])

\* round(x) of <math.h>, halves away from zero, for 0 < x < 2^31
FRound(x) ==
    IF -x.e > 53 THEN 0
    ELSE LET v == WShr(x.m, -x.e - 1)
         IN  WToInt(WHalf(v)) + (IF WOdd(v) THEN 1 ELSE 0)

(* ------------------------------------------------------------------ *)
(* Geometry of the character grid (init_filters, lines 164-199)        *)
(* ------------------------------------------------------------------ *)

\* #define MAX_ASCII_WIDTH 80
MAX_ASCII_WIDTH == 80

\* #define CHARACTER_ASPECT_RATIO 0.5
CHARACTER_ASPECT_RATIO == [m |-> WPow2(52), e |-> -53]

\* a double not assigned yet
NoDouble == [m |-> WZero, e |-> 0]

\* av_q2d(): num / (double) den
av_q2d(num, den) == FDiv(FFromInt(num), FFromInt(den))

\* lines 169-172: the sample aspect ratio is applied when both parts are > 0
SarIsValid(num, den) == num > 0 /\ den > 0

\* if (target_height < 1) target_height = 1 (line 187)
FloorAtOne(n) == IF n < 1 THEN 1 ELSE n

\* MakeEven with the rounding to an even number left out
MakeEven_Identity(n) == n

\* (int)round(x / 2.0) * 2 for an integral x >= 0 (lines 188-189): x / 2.0
\* is exact and round() takes the half away from zero
MakeEven(n) == ((n + 1) \div 2) * 2

\* if (x == 0) x = 2 (lines 192-193)
ZeroToTwo(n) == IF n = 0 THEN 2 ELSE n

\* (int)target_width as printed into filters_descr (lines 183, 188, 192)
TargetWidth == ZeroToTwo(MakeEven(MAX_ASCII_WIDTH))

\* (int)target_height as printed into filters_descr (lines 184-193), from
\* the adjusted aspect ratio
TargetHeight(adjusted) ==
    ZeroToTwo(MakeEven(FloorAtOne(FRound(FDiv(FFromInt(MAX_ASCII_WIDTH), adjusted)))))

\* ComputeGeometry taking an invalid sample aspect ratio for 2/1
ComputeGeometry_InvalidSarIsTwo ==
    /\ video_width' =
          IF SarIsValid(dec_ctx.sar_num, dec_ctx.sar_den)
          THEN FMul(FFromInt(dec_ctx.width), av_q2d(dec_ctx.sar_num, dec_ctx.sar_den))
          ELSE FMul(FFromInt(dec_ctx.width), av_q2d(2, 1))
    /\ video_display_aspect_ratio' = FDiv(video_width', FFromInt(dec_ctx.height))
    /\ adjusted_aspect_ratio' = FDiv(video_display_aspect_ratio', CHARACTER_ASPECT_RATIO)
    /\ filters_descr' = <<TargetWidth, TargetHeight(adjusted_aspect_ratio')>>

\* lines 164-199 of init_filters: the locals are assigned in the order of the
\* code, and the description is printed from them
ComputeGeometry ==
    /\ video_width' =
          IF SarIsValid(dec_ctx.sar_num, dec_ctx.sar_den)
          THEN FMul(FFromInt(dec_ctx.width), av_q2d(dec_ctx.sar_num, dec_ctx.sar_den))
          ELSE FFromInt(dec_ctx.width)
    /\ video_display_aspect_ratio' = FDiv(video_width', FFromInt(dec_ctx.height))
    /\ adjusted_aspect_ratio' = FDiv(video_display_aspect_ratio', CHARACTER_ASPECT_RATIO)
    /\ filters_descr' = <<TargetWidth, TargetHeight(adjusted_aspect_ratio')>>

(* ------------------------------------------------------------------ *)
(* The environment: inputs of a run                                    *)
(* ------------------------------------------------------------------ *)

\* argc of the invocations modelled: no argument, one, two
ArgCounts == {1, 2, 3}

\* the decoder context before open_input_file fills it
NoStream == [width |-> 0, height |-> 0, sar_num |-> 0, sar_den |-> 0]

\* the video streams the driver is run on
Streams ==
    { [width |-> 720, height |-> 720, sar_num |-> 1, sar_den |-> 1],
      [width |-> 10, height |-> 1000, sar_num |-> 0, sar_den |-> 1] }

\* the calls of open_input_file that can fail, in order; "ok" is success
OpenSteps == {"avformat_open_input", "avformat_find_stream_info",
              "av_find_best_stream", "avcodec_alloc_context3",
              "avcodec_open2", "ok"}

\* the steps of init_filters that can fail, in order; "ok" is success
FilterSteps == {"alloc", "buffersrc", "buffersink", "pix_fmts",
                "parse", "config", "ok"}

(* ------------------------------------------------------------------ *)
(* Helpers of main()                                                   *)
(* ------------------------------------------------------------------ *)

\* the positions from `end:` on
Terminal == {"end", "status", "exited"}

\* AfterPacket going back to init_filters
AfterPacket_Rebuild(fd) == IF fd # 0 THEN "end" ELSE "init_filters"

\* AfterPacket with a loop that is never left
AfterPacket_Spin(fd) == "spin"

\* lines 338-342 and the loop condition at line 280, after the packet was
\* unreferenced: leave the loop when a frame was displayed, else read on
AfterPacket(fd) == IF fd # 0 THEN "end" ELSE "read"

\* what display_frame reads and writes; main() only counts its calls (in
\* `rendered`), the bytes written are followed in DisplaySpec
dispVars == <<disp_frame, stdout>>

\* no frame was displayed yet
NoFrame == [width |-> 0, height |-> 0, linesize |-> 0, data |-> <<>>]

\* the string literal of line 241
Ramp == <<" ", ".", "-", "+", "#">>

\* GlyphIndex dividing by 51
GlyphIndex_By51(s) == s \div 51

\* line 241: *(p++) / 52 for a uint8_t sample
GlyphIndex(s) == s \div 52

\* line 241: " .-+#"[i]; the literal has six bytes, index 5 is its terminator
Glyph(s) ==
    LET i == GlyphIndex(s)
    IN  IF i < Len(Ramp) THEN Ramp[i + 1] ELSE "NUL"

\* RowOffset advancing by the width of a row
RowOffset_ByWidth(f, y) == y * f.width

\* lines 236-243: p0 of row y, data[0] advanced y times by linesize[0]
RowOffset(f, y) == y * f.linesize

\* lines 239-242: the glyphs of row y and its newline
DisplayRow(f, y) ==
    [x \in 1..f.width |-> Glyph(f.data[RowOffset(f, y) + x]) ] \o <<"NL">>

RECURSIVE DisplayRows(_, _)
\* lines 238-244: rows y .. height-1
DisplayRows(f, y) ==
    IF y >= f.height THEN <<>> ELSE DisplayRow(f, y) \o DisplayRows(f, y + 1)

\* lines 230-246: everything display_frame writes, ending with fflush
DisplayOutput(f) == <<"ESC[H">> \o DisplayRows(f, 0) \o <<"fflush">>

\* the stream indexes a unit can carry
StreamIndexes == {0, 1}

\* SelectedStream taking every unit for a video unit
SelectedStream_Any(idx) == TRUE

\* line 288: the unit belongs to the selected video stream
SelectedStream(idx) == idx = video_stream_index

\* ReadFailed testing for end of stream only
ReadFailed_OnlyEof(r) == r = AVERROR_EOF

\* line 281: av_read_frame failed
ReadFailed(r) == r < 0

\* SendIsHard with the break of line 294 never taken
SendIsHard_Never(r) == FALSE

\* line 293: a failed avcodec_send_packet that ends the loop
SendIsHard(r) == r # AVERROR_EAGAIN /\ r # AVERROR_EOF

\* lines 300 and 319: the decoder / the sink has nothing to give now
IsAgainOrEof(r) == r = AVERROR_EAGAIN \/ r = AVERROR_EOF

\* PullIsSoft taking every error of the sink for "nothing to give now"
PullIsSoft_AnyError(r) == r < 0

\* line 319 for the sink
PullIsSoft(r) == IsAgainOrEof(r)

\* TeardownSet without av_frame_free(&filt_frame)
TeardownSet_LeakFilt == Resources \ {"filt_frame"}

\* what `end:` frees (lines 346-351)
TeardownSet == Resources

\* ExitCode with the end-of-stream branch of line 357 left out
ExitCode_EofSucceeds(r, fd) ==
    IF r < 0 /\ r # AVERROR_EOF /\ fd = 0 THEN 1 ELSE 0

\* the final status (lines 354-362): the argument of exit()
ExitCode(r, fd) ==
    IF r < 0 /\ r # AVERROR_EOF /\ fd = 0 THEN 1
    ELSE IF fd = 0 /\ r = AVERROR_EOF THEN 1
    ELSE 0

\* the final status (lines 354-362): the message printed
Report(r, fd) ==
    IF r < 0 /\ r # AVERROR_EOF /\ fd = 0 THEN "error"
    ELSE IF fd = 0 /\ r = AVERROR_EOF THEN "no_frame"
    ELSE "none"

(* ------------------------------------------------------------------ *)
(* Initial state                                                       *)
(* ------------------------------------------------------------------ *)

\* main() is entered.  frame_displayed is declared at line 279, after the
\* two `goto end` of lines 272 and 276: until line 279 runs its value is
\* indeterminate (0, or 1 standing for any nonzero value).
Init ==
    /\ pc = "main"
    /\ ret = 0
    /\ frame_displayed \in {0, 1}
    /\ res = [r \in Resources |-> "null"]
    /\ freeCalls = [r \in Resources |-> 0]
    /\ held = [b \in Slots |-> FALSE]
    /\ dec_ctx = NoStream
    /\ video_width = NoDouble
    /\ video_display_aspect_ratio = NoDouble
    /\ adjusted_aspect_ratio = NoDouble
    /\ filters_descr = <<0, 0>>
    /\ lastCall = "none"
    /\ unitsRead = 0
    /\ framesOut = 0
    /\ rendered = 0
    /\ exitCode = -1
    /\ report = "none"
    /\ avlog = "none"
    /\ video_stream_index = -1
    /\ stream_index = -1
    /\ disp_frame = NoFrame
    /\ stdout = <<>>

(* ------------------------------------------------------------------ *)
(* main(), one action per library call and the code that follows it    *)
(* ------------------------------------------------------------------ *)

\* lines 255-258: the argument count
CheckArgs ==
    /\ pc = "main"
    /\ \E argc \in ArgCounts :
        IF argc # 2
        THEN /\ pc' = "exited"
             /\ exitCode' = 1
             /\ report' = "usage"
        ELSE /\ pc' = "alloc"
             /\ UNCHANGED <<exitCode, report>>
    /\ UNCHANGED <<ret, frame_displayed, res, freeCalls, held, dec_ctx,
                   geomVars, lastCall, unitsRead, framesOut, rendered,
                   avlog, video_stream_index, stream_index, dispVars>>

\* lines 263-269: the two frames and the packet
AllocBuffers ==
    /\ pc = "alloc"
    /\ \E got \in SUBSET Slots :
        /\ res' = [r \in Resources |-> IF r \in got THEN "live" ELSE res[r]]
        /\ IF got = Slots
           THEN /\ pc' = "open"
                /\ UNCHANGED <<exitCode, report>>
           ELSE /\ pc' = "exited"
                /\ exitCode' = 1
                /\ report' = "alloc"
    /\ UNCHANGED <<ret, frame_displayed, freeCalls, held, dec_ctx,
                   geomVars, lastCall, unitsRead, framesOut, rendered,
                   avlog, video_stream_index, stream_index, dispVars>>

\* lines 271-272 with open_input_file (lines 67-102): `step` is the call
\* that fails, `code` what it returns, `vsi` the stream av_find_best_stream
\* selects.  Every failure but that of avcodec_alloc_context3 is logged.
OpenInputFile ==
    /\ pc = "open"
    /\ \E step \in OpenSteps, code \in ErrorCodes, stream \in Streams,
          vsi \in StreamIndexes :
        LET fmtLive == step # "avformat_open_input"
            found == step \in {"avcodec_alloc_context3", "avcodec_open2", "ok"}
            decLive == step \in {"avcodec_open2", "ok"}
        IN  /\ step = "avcodec_alloc_context3" => code = AVERROR_ENOMEM
            /\ video_stream_index' = IF found THEN vsi ELSE video_stream_index
            /\ avlog' = IF step \in {"ok", "avcodec_alloc_context3"}
                        THEN avlog ELSE "open_input_file"
            /\ ret' = IF step = "ok" THEN 0 ELSE code
            /\ res' = [res EXCEPT !["fmt_ctx"] = IF fmtLive THEN "live" ELSE @,
                                  !["dec_ctx"] = IF decLive THEN "live" ELSE @]
            /\ dec_ctx' = IF decLive THEN stream ELSE dec_ctx
            /\ pc' = IF step = "ok" THEN "init_filters" ELSE "end"
    /\ lastCall' = "open_input_file"
    /\ UNCHANGED <<frame_displayed, freeCalls, held, geomVars,
                   unitsRead, framesOut, rendered, exitCode, report,
                   stream_index,
                   dispVars>>

\* lines 275-280 with init_filters (lines 104-228): `step` is the call that
\* fails; the description is built (line 198) before the graph is parsed.
\* On success line 279 sets frame_displayed and the loop is entered.
InitFilters ==
    /\ pc = "init_filters"
    /\ \E step \in FilterSteps, code \in ErrorCodes, graphOk \in BOOLEAN :
        /\ step = "alloc" => code = AVERROR_ENOMEM
        /\ step # "alloc" => graphOk
        /\ ret' = IF step = "ok" THEN 0 ELSE code
        /\ avlog' = IF step \in {"ok", "alloc"} THEN avlog ELSE "init_filters"
        /\ res' = [res EXCEPT !["filter_graph"] = IF graphOk THEN "live" ELSE @]
        /\ IF step \in {"parse", "config", "ok"}
           THEN ComputeGeometry
           ELSE UNCHANGED geomVars
        /\ IF step = "ok"
           THEN /\ frame_displayed' = 0
                /\ pc' = AfterPacket(0)
           ELSE /\ pc' = "end"
                /\ UNCHANGED frame_displayed
    /\ lastCall' = "init_filters"
    /\ UNCHANGED <<freeCalls, held, dec_ctx, unitsRead, framesOut,
                   rendered, exitCode, report, video_stream_index,
                   stream_index,
                   dispVars>>

\* lines 281-288 (and 338-342 for a unit of another stream)
ReadFrame ==
    /\ pc = "read"
    /\ \E r \in {0} \cup ErrorCodes, idx \in StreamIndexes :
        /\ r = 0 => unitsRead < MaxUnits
        /\ r # 0 => idx = video_stream_index
        /\ ret' = r
        /\ IF ReadFailed(r)
           THEN /\ pc' = "end"
                /\ avlog' = IF r # AVERROR_EOF THEN "av_read_frame" ELSE avlog
                /\ UNCHANGED <<held, unitsRead, stream_index>>
           ELSE /\ unitsRead' = unitsRead + 1
                /\ stream_index' = idx
                /\ UNCHANGED avlog
                /\ IF SelectedStream(idx)
                   THEN /\ pc' = "send"
                        /\ held' = [held EXCEPT !["packet"] = TRUE]
                   ELSE /\ pc' = AfterPacket(frame_displayed)
                        /\ held' = [held EXCEPT !["packet"] = FALSE]
    /\ lastCall' = "av_read_frame"
    /\ UNCHANGED <<frame_displayed, res, freeCalls, dec_ctx, geomVars,
                   framesOut, rendered, exitCode, report, video_stream_index,
                   dispVars>>

\* lines 289-298
SendPacket ==
    /\ pc = "send"
    /\ \E r \in {0} \cup ErrorCodes :
        /\ ret' = r
        /\ avlog' = IF r < 0 THEN "avcodec_send_packet" ELSE avlog
        /\ IF r < 0 /\ SendIsHard(r)
           THEN /\ pc' = "end"
                /\ UNCHANGED held
           ELSE IF r >= 0
           THEN /\ pc' = "receive"
                /\ UNCHANGED held
           ELSE /\ pc' = AfterPacket(frame_displayed)
                /\ held' = [held EXCEPT !["packet"] = FALSE]
    /\ framesOut' = 0
    /\ lastCall' = "avcodec_send_packet"
    /\ UNCHANGED <<frame_displayed, res, freeCalls, dec_ctx, geomVars,
                   unitsRead, rendered, exitCode, report, video_stream_index,
                   stream_index,
                   dispVars>>

\* lines 299-308; avcodec_receive_frame unreferences the frame it is given
\* before it fills it
ReceiveFrame ==
    /\ pc = "receive"
    /\ \E r \in {0} \cup ErrorCodes :
        /\ r = 0 => framesOut < MaxFrames
        /\ ret' = r
        /\ avlog' = IF r < 0 /\ ~IsAgainOrEof(r)
                    THEN "avcodec_receive_frame" ELSE avlog
        /\ IF IsAgainOrEof(r)
           THEN /\ pc' = AfterPacket(frame_displayed)
                /\ held' = [held EXCEPT !["frame"] = FALSE, !["packet"] = FALSE]
                /\ UNCHANGED framesOut
           ELSE IF r < 0
           THEN /\ pc' = "end"
                /\ held' = [held EXCEPT !["frame"] = FALSE]
                /\ UNCHANGED framesOut
           ELSE /\ pc' = "push"
                /\ held' = [held EXCEPT !["frame"] = TRUE]
                /\ framesOut' = framesOut + 1
    /\ lastCall' = "avcodec_receive_frame"
    /\ UNCHANGED <<frame_displayed, res, freeCalls, dec_ctx, geomVars,
                   unitsRead, rendered, exitCode, report, video_stream_index,
                   stream_index,
                   dispVars>>

\* lines 311-314: the result of the push is not stored in ret; a failed push
\* leaves the drain loop by `break`, past av_frame_unref(frame)
PushFrame ==
    /\ pc = "push"
    /\ \E ok \in BOOLEAN :
        IF ok
        THEN /\ pc' = "pull"
             /\ UNCHANGED <<held, avlog>>
        ELSE /\ pc' = AfterPacket(frame_displayed)
             /\ held' = [held EXCEPT !["packet"] = FALSE]
             /\ avlog' = "av_buffersrc_add_frame_flags"
    /\ lastCall' = "av_buffersrc_add_frame_flags"
    /\ UNCHANGED <<ret, frame_displayed, res, freeCalls, dec_ctx,
                   geomVars, unitsRead, framesOut, rendered, exitCode,
                   report, video_stream_index, stream_index,
                   dispVars>>

\* lines 317-342: one pull, and for a frame display_frame and the two
\* unreferences; then the drain loop goes on while ret >= 0
PullFrame ==
    /\ pc = "pull"
    /\ \E r \in {0} \cup ErrorCodes :
        /\ ret' = r
        /\ avlog' = IF r < 0 /\ ~PullIsSoft(r)
                    THEN "av_buffersink_get_frame" ELSE avlog
        /\ IF PullIsSoft(r)
           THEN /\ pc' = AfterPacket(frame_displayed)
                /\ held' = [held EXCEPT !["frame"] = FALSE, !["packet"] = FALSE]
                /\ lastCall' = "av_buffersink_get_frame"
                /\ UNCHANGED rendered
           ELSE IF r < 0
           THEN /\ pc' = "end"
                /\ lastCall' = "av_buffersink_get_frame"
                /\ UNCHANGED <<held, rendered>>
           ELSE /\ rendered' = rendered + 1
                /\ lastCall' = "display_frame"
                /\ IF frame_displayed # 0
                   THEN /\ pc' = "end"
                        /\ held' = [b \in Slots |-> FALSE]
                   ELSE /\ pc' = "receive"
                        /\ held' = [held EXCEPT !["frame"] = FALSE,
                                                !["filt_frame"] = FALSE]
    /\ UNCHANGED <<frame_displayed, res, freeCalls, dec_ctx, geomVars,
                   unitsRead, framesOut, exitCode, report,
                   video_stream_index, stream_index,
                   dispVars>>

\* lines 344-351: every free function is null-safe and clears its pointer
Teardown ==
    /\ pc = "end"
    /\ res' = [r \in Resources |->
                  IF r \in TeardownSet /\ res[r] = "live" THEN "freed" ELSE res[r]]
    /\ freeCalls' = [r \in Resources |->
                  IF r \in TeardownSet THEN freeCalls[r] + 1 ELSE freeCalls[r]]
    /\ held' = [b \in Slots |-> IF b \in TeardownSet THEN FALSE ELSE held[b]]
    /\ pc' = "status"
    /\ UNCHANGED <<ret, frame_displayed, dec_ctx, geomVars, lastCall,
                   unitsRead, framesOut, rendered, exitCode, report,
                   avlog, video_stream_index, stream_index, dispVars>>

\* lines 353-362
FinalStatus ==
    /\ pc = "status"
    /\ pc' = "exited"
    /\ exitCode' = ExitCode(ret, frame_displayed)
    /\ report' = Report(ret, frame_displayed)
    /\ UNCHANGED <<ret, frame_displayed, res, freeCalls, held, dec_ctx,
                   geomVars, lastCall, unitsRead, framesOut, rendered,
                   avlog, video_stream_index, stream_index, dispVars>>

Next ==
    \/ CheckArgs
    \/ AllocBuffers
    \/ OpenInputFile
    \/ InitFilters
    \/ ReadFrame
    \/ SendPacket
    \/ ReceiveFrame
    \/ PushFrame
    \/ PullFrame
    \/ Teardown
    \/ FinalStatus

Spec == Init /\ [][Next]_vars

(* ------------------------------------------------------------------ *)
(* The geometry alone, over a larger set of streams                    *)
(* ------------------------------------------------------------------ *)

GeomWidths == (1..MaxDim) \cup {10, 16, 720}
GeomHeights == (1..MaxDim) \cup {93, 720, 1000}
SarParts == -1..MaxSar

GeomStreams ==
    [width : GeomWidths, height : GeomHeights, sar_num : SarParts, sar_den : SarParts]

\* init_filters is entered with the decoder context of some stream
GeomInit ==
    /\ pc = "geometry"
    /\ ret = 0
    /\ frame_displayed = 0
    /\ res = [r \in Resources |-> "null"]
    /\ freeCalls = [r \in Resources |-> 0]
    /\ held = [b \in Slots |-> FALSE]
    /\ dec_ctx \in GeomStreams
    /\ video_width = NoDouble
    /\ video_display_aspect_ratio = NoDouble
    /\ adjusted_aspect_ratio = NoDouble
    /\ filters_descr = <<0, 0>>
    /\ lastCall = "none"
    /\ unitsRead = 0
    /\ framesOut = 0
    /\ rendered = 0
    /\ exitCode = -1
    /\ report = "none"
    /\ avlog = "none"
    /\ video_stream_index = -1
    /\ stream_index = -1
    /\ disp_frame = NoFrame
    /\ stdout = <<>>

\* lines 164-199 of init_filters
ResolveGeometry ==
    /\ pc = "geometry"
    /\ ComputeGeometry
    /\ pc' = "resolved"
    /\ UNCHANGED <<ret, frame_displayed, res, freeCalls, held, dec_ctx,
                   lastCall, unitsRead, framesOut, rendered, exitCode, report,
                   avlog, video_stream_index, stream_index, dispVars>>

GeomNext == ResolveGeometry

GeomSpec == GeomInit /\ [][GeomNext]_vars

(* ------------------------------------------------------------------ *)
(* display_frame alone, over small luminance frames                    *)
(* ------------------------------------------------------------------ *)

\* first sample of a frame, and the step from one byte to the next
SampleBases == {0, 51, 52, 208, 255}
SampleSteps == {1, 52}

\* a plane of n uint8_t samples; data[i] is the byte at offset i - 1
PlaneData(base, step, n) == [i \in 1..n |-> (base + (i - 1) * step) % 256]

\* the frames display_frame is called with: linesize[0] >= width
DisplayFrames ==
    { [width |-> w, height |-> h, linesize |-> w + pad,
       data |-> PlaneData(base, step, (w + pad) * h)] :
         w \in 1..MaxFrameWidth, h \in 1..MaxFrameHeight, pad \in 0..MaxPadding,
         base \in SampleBases, step \in SampleSteps }

\* display_frame is entered with some frame
DisplayInit ==
    /\ pc = "display_frame"
    /\ ret = 0
    /\ frame_displayed = 0
    /\ res = [r \in Resources |-> "null"]
    /\ freeCalls = [r \in Resources |-> 0]
    /\ held = [b \in Slots |-> FALSE]
    /\ dec_ctx = NoStream
    /\ video_width = NoDouble
    /\ video_display_aspect_ratio = NoDouble
    /\ adjusted_aspect_ratio = NoDouble
    /\ filters_descr = <<0, 0>>
    /\ lastCall = "none"
    /\ unitsRead = 0
    /\ framesOut = 0
    /\ rendered = 0
    /\ exitCode = -1
    /\ report = "none"
    /\ avlog = "none"
    /\ video_stream_index = -1
    /\ stream_index = -1
    /\ disp_frame \in DisplayFrames
    /\ stdout = <<>>

\* lines 230-246
DisplayFrame ==
    /\ pc = "display_frame"
    /\ stdout' = stdout \o DisplayOutput(disp_frame)
    /\ rendered' = rendered + 1
    /\ pc' = "displayed"
    /\ UNCHANGED <<ret, frame_displayed, res, freeCalls, held, dec_ctx,
                   geomVars, lastCall, unitsRead, framesOut, exitCode,
                   report, avlog, video_stream_index, stream_index,
                   disp_frame>>

DisplayNext == DisplayFrame

DisplaySpec == DisplayInit /\ [][DisplayNext]_vars

(* ------------------------------------------------------------------ *)
(* Properties                                                          *)
(* ------------------------------------------------------------------ *)

\* every free function was called exactly once
TornDown == \A r \in Resources : freeCalls[r] = 1

\* the process exited with code 1 and the message of a failed run
ExitedAsError == exitCode = 1 /\ report = "error"

\* C1: as soon as a pull produces a frame the driver renders it and
\* terminates all loops: the renderer is invoked at most once, and after a
\* render the driver is at `end:` or beyond (no further read, receive, push
\* or pull).
C1_RenderOnceThenStop ==
    /\ rendered <= 1
    /\ rendered >= 1 => pc \in Terminal

\* C2: every run in which a transformed frame was rendered ends with exit
\* code 0.
C2_RenderedExitsZero ==
    (pc = "exited" /\ rendered >= 1) => exitCode = 0

\* C3: when reading a unit returns end-of-stream while no frame has been
\* displayed, the driver leaves the read loop, runs teardown and exits with
\* code 1, reported as "no frame" (Exhausted), whatever was read before.
C3_EofExhausted ==
    (lastCall = "av_read_frame" /\ ret = AVERROR_EOF /\ rendered = 0)
        => /\ pc \in Terminal
           /\ pc = "exited" =>
                (exitCode = 1 /\ report = "no_frame" /\ TornDown)

\* C3 witness: a run that read units, displayed nothing, met end-of-stream
\* and exited.
C3_Witness ==
    /\ pc = "exited"
    /\ lastCall = "av_read_frame"
    /\ ret = AVERROR_EOF
    /\ rendered = 0
    /\ unitsRead >= 1
    /\ exitCode = 1

\* C4: when opening the source or building the graph fails, no unit is ever
\* read and nothing is rendered, teardown runs, and the exit code is 1
\* whatever the frame-displayed flag holds.
C4_EarlyFailureExitsOne ==
    (lastCall \in {"open_input_file", "init_filters"} /\ ret < 0)
        => /\ pc \in Terminal
           /\ unitsRead = 0
           /\ rendered = 0
           /\ pc = "exited" => (exitCode = 1 /\ TornDown)

C6_DecodeErrorFails ==
    /\ (lastCall \in {"avcodec_send_packet", "avcodec_receive_frame"}
            /\ ret < 0 /\ ~IsAgainOrEof(ret))
          => /\ pc \in Terminal
             /\ pc = "exited" => ExitedAsError
    /\ (lastCall \in {"avcodec_send_packet", "avcodec_receive_frame"}
            /\ ret = AVERROR_EAGAIN)
          => pc = "read"

\* C6 witness: a run that ended on a hard error of avcodec_send_packet.
C6_Witness ==
    /\ pc = "exited"
    /\ lastCall = "avcodec_send_packet"
    /\ ret = AVERROR_INVALIDDATA
    /\ exitCode = 1

\* C7: a read error other than end-of-stream ends the loop at that iteration
\* and the process exits with code 1, reported as an error and not as
\* "no frame".
C7_ReadErrorFails ==
    (lastCall = "av_read_frame" /\ ret < 0 /\ ret # AVERROR_EOF)
        => /\ pc \in Terminal
           /\ pc = "exited" => ExitedAsError

\* C7 witness: a run that read a unit and then ended on a read error.
C7_Witness ==
    /\ pc = "exited"
    /\ lastCall = "av_read_frame"
    /\ ret = AVERROR_INVALIDDATA
    /\ unitsRead >= 1
    /\ report = "error"

\* the source was opened: open_input_file was called and did not fail
SourceOpened ==
    lastCall # "none" /\ ~(lastCall = "open_input_file" /\ ret < 0)

\* C8: on every path that ends after the source was opened, the graph, the
\* decoder, the source handle, the two frames and the packet are each freed
\* exactly once, at `end:` and not before; none is freed twice, none is left.
C8_TeardownOnce ==
    /\ \A r \in Resources : freeCalls[r] <= 1
    /\ pc \notin {"status", "exited"} => \A r \in Resources : freeCalls[r] = 0
    /\ (pc = "exited" /\ SourceOpened)
          => /\ TornDown
             /\ \A r \in Resources \ {"filter_graph"} : res[r] = "freed"
             /\ res["filter_graph"] # "live"
             /\ filters_descr # <<0, 0>> => res["filter_graph"] = "freed"
             /\ \A b \in Slots : ~held[b]

\* C8 witness: a run that rendered a frame and exited with everything freed.
C8_Witness ==
    /\ pc = "exited"
    /\ rendered >= 1
    /\ \A r \in Resources : res[r] = "freed" /\ freeCalls[r] = 1

ExactRounded(w, h, num, den) == (2 * 40 * h * den + w * num) \div (2 * w * num)

\* E(max(1, R)) with E(x) = 2 * round(x / 2)
ExactRows(w, h, num, den) ==
    LET R == ExactRounded(w, h, num, den)
    IN  2 * (((IF R < 1 THEN 1 ELSE R) + 1) \div 2)

\* C10: for positive width and height and a valid sample aspect ratio the
\* rows are E(max(1, R)) with R = round(40 * h * den / (w * num)), halves
\* away from zero, and the columns are 80.
C10_RowsExact ==
    (pc = "resolved" /\ SarIsValid(dec_ctx.sar_num, dec_ctx.sar_den))
        => filters_descr = <<80, ExactRows(dec_ctx.width, dec_ctx.height,
                                           dec_ctx.sar_num, dec_ctx.sar_den)>>

\* the tokens display_frame can write besides glyphs
ControlTokens == {"ESC[H", "NL", "fflush"}

\* the glyphs of the ramp
RampGlyphs == {Ramp[i] : i \in 1..Len(Ramp)}

\* C11: for every 8-bit sample s the glyph index s / 52 lies in 0..4, so the
\* lookup stays inside the 5-character ramp; the mapping is non-decreasing,
\* 0 and 51 give ' ', 52 gives '.', 208..255 give '#'; everything
\* display_frame writes for a frame is a ramp glyph or a control token.
C11_GlyphInRamp ==
    /\ \A s \in 0..255 : GlyphIndex(s) \in 0..4 /\ Glyph(s) \in RampGlyphs
    /\ \A s \in 0..254 : GlyphIndex(s) <= GlyphIndex(s + 1)
    /\ Glyph(0) = " " /\ Glyph(51) = " " /\ Glyph(52) = "."
    /\ \A s \in 208..255 : Glyph(s) = "#"
    /\ \A i \in 1..Len(stdout) : stdout[i] \in RampGlyphs \cup ControlTokens

\* C11 witness: a displayed frame whose first sample is 255, written as '#'.
C11_Witness ==
    /\ pc = "displayed"
    /\ disp_frame.data[1] = 255
    /\ stdout[2] = "#"

\* C12: for a frame of width W and height H display_frame writes one
\* cursor reset, then H lines in row order, each the W glyphs of the row in
\* column order (row r, column c read at offset r * stride + c) and one
\* newline, then one flush, which is the last thing written before
\* display_frame returns to the driver.
C12_DisplayOutput ==
    pc = "displayed" =>
        LET W == disp_frame.width
            H == disp_frame.height
            stride == disp_frame.linesize
        IN  /\ Len(stdout) = 1 + H * (W + 1) + 1
            /\ stdout[1] = "ESC[H"
            /\ stdout[Len(stdout)] = "fflush"
            /\ Cardinality({i \in 1..Len(stdout) : stdout[i] = "fflush"}) = 1
            /\ Cardinality({i \in 1..Len(stdout) : stdout[i] = "ESC[H"}) = 1
            /\ \A r \in 0..(H - 1) :
                /\ \A c \in 0..(W - 1) :
                     stdout[2 + r * (W + 1) + c]
                        = Glyph(disp_frame.data[r * stride + c + 1])
                /\ stdout[2 + r * (W + 1) + W] = "NL"

\* C12 witness: a displayed frame of two rows with padding between them.
C12_Witness ==
    /\ pc = "displayed"
    /\ disp_frame.height = 2
    /\ disp_frame.linesize > disp_frame.width
    /\ stdout[Len(stdout)] = "fflush"

\* C13: every error that ends a run is reported exactly once, at its origin
\* and before teardown; it is not reported again after the resources were
\* released.
C13_ReportedOnce ==
    (pc = "exited" /\ lastCall # "none" /\ ret < 0 /\ ret # AVERROR_EOF)
        => /\ avlog = lastCall
           /\ report # "error"

\* C14: a failed push is fatal: after it the driver reads no further unit,
\* receives no further frame and exits with code 1.
C14_PushFailureFatal ==
    (lastCall = "av_buffersrc_add_frame_flags" /\ pc # "pull")
        => /\ pc \in Terminal
           /\ pc = "exited" => exitCode = 1

\* the calls made while the frames of one unit are drained
DrainCalls ==
    {"avcodec_receive_frame", "av_buffersrc_add_frame_flags",
     "av_buffersink_get_frame", "display_frame"}

\* C15: after a pull returns Empty the driver goes on to receive the next
\* decoded frame of the same unit; the drain loop of a unit is left for the
\* next read only when the decoder signals needs-more-input or
\* end-of-stream.
C15_DrainAllFrames ==
    /\ (lastCall = "av_buffersink_get_frame" /\ ret = AVERROR_EAGAIN)
          => pc = "receive"
    /\ (pc = "read" /\ lastCall \in DrainCalls)
          => (lastCall = "avcodec_receive_frame" /\ IsAgainOrEof(ret))

\* the graph was built and configured, and not yet released
GraphUsable ==
    /\ res["filter_graph"] = "live"
    /\ freeCalls["filter_graph"] = 0
    /\ filters_descr # <<0, 0>>

\* C16: every push and every pull happens after the graph was built and
\* before it is released; the geometry is resolved and the graph built at
\* most once, before the first unit is read, and afterwards the description
\* never changes and the graph is never rebuilt.
C16_GraphBuiltOnce ==
    /\ [](pc \in {"push", "pull"} => GraphUsable)
    /\ [](pc = "init_filters" =>
            /\ res["filter_graph"] = "null"
            /\ filters_descr = <<0, 0>>
            /\ unitsRead = 0)
    /\ [](unitsRead >= 1 => filters_descr # <<0, 0>>)
    /\ [][filters_descr # <<0, 0>> => filters_descr' = filters_descr]_vars
    /\ [][res["filter_graph"] # "null" => res'["filter_graph"] # "null"]_vars

\* C16 witness: a pull for the second unit, on the graph built before the
\* first read.
C16_Witness ==
    /\ pc = "pull"
    /\ unitsRead >= 2
    /\ GraphUsable

\* C17: a frame slot is never refilled while it holds an unreleased frame:
\* whenever the driver is about to receive into the decoded-frame slot or to
\* pull into the transformed-frame slot, it has released what the slot held.
C17_SlotReleasedBeforeRefill ==
    /\ pc = "receive" => ~held["frame"]
    /\ pc = "pull" => ~held["filt_frame"]

\* C18: a unit of another stream than the selected one is discarded with no
\* other effect: it is never given to the decoder, no receive, push, pull or
\* render is made for it, the flag and the pipeline state stay as they were,
\* the packet is released and the loop goes on with the next read.
C18_OtherStreamDiscarded ==
    /\ []((lastCall = "av_read_frame" /\ ret >= 0
              /\ stream_index # video_stream_index)
            => (pc = "read" /\ ~held["packet"]))
    /\ [](pc \in {"send", "receive", "push", "pull"}
            => stream_index = video_stream_index)
    /\ [][(pc = "read" /\ pc' = "read")
            => UNCHANGED <<frame_displayed, res, freeCalls, held, dec_ctx,
                           geomVars, framesOut, rendered, exitCode, report,
                           avlog, video_stream_index, dispVars>>]_vars

\* C18 witness: a unit of another stream was read and the driver is back at
\* the read.
C18_Witness ==
    /\ lastCall = "av_read_frame"
    /\ ret = 0
    /\ stream_index # video_stream_index
    /\ pc = "read"
    /\ unitsRead >= 1

\* C19: a sample aspect ratio with a non-positive numerator or denominator
\* gives the geometry of the sample aspect ratio 1/1, for every width and
\* height.
C19_InvalidSarIsUnit ==
    (pc = "resolved" /\ (dec_ctx.sar_num <= 0 \/ dec_ctx.sar_den <= 0))
        => \E vw \in {FMul(FFromInt(dec_ctx.width), av_q2d(1, 1))} :
           \E dar \in {FDiv(vw, FFromInt(dec_ctx.height))} :
           \E adj \in {FDiv(dar, CHARACTER_ASPECT_RATIO)} :
               filters_descr = <<TargetWidth, TargetHeight(adj)>>

\* C19 witness: 16x93 with the sample aspect ratio 0/1 resolved.
C19_Witness ==
    /\ pc = "resolved"
    /\ dec_ctx = [width |-> 16, height |-> 93, sar_num |-> 0, sar_den |-> 1]
    /\ filters_descr = <<80, 232>>

\* main() is never stopped for ever while it has a next step
LiveSpec == Init /\ [][Next]_vars /\ WF_vars(Next)

\* C20: for every finite input the driver eventually exits.
C20_Terminates == <>(pc = "exited")

\* C20 witness: the driver exited after it read every unit of the input and
\* received every frame of the last one.
C20_Witness ==
    /\ pc = "exited"
    /\ unitsRead = MaxUnits
    /\ framesOut = MaxFrames

====
